---- MODULE Spec2Model ----
(***************************************************************************)
(* Model of src/core/execution/utils/BotBehavior.ts: the per-bot           *)
(* controller (enemy memory, enemy selection, ally assistance, attack      *)
(* issuance, resource distribution, alliance request evaluation).          *)
(*                                                                         *)
(* The controller's own state is enemy / enemyUpdated plus the three       *)
(* constructor ratios (cfg).  Everything the controller reads from Game    *)
(* and Player is a query on `world`, which the world changes on its own    *)
(* between operations; `rnd` holds what the PseudoRandom answered during   *)
(* the last operation.  What an operation does to the outside              *)
(* (accept/reject, donate, updateRelation, addExecution) is logged in      *)
(* `calls`; every setNewEnemy of the operation is logged in `designated`;  *)
(* its return value is `ret`; `pre` is the enemy memory it started from.   *)
(***************************************************************************)
EXTENDS Integers, Sequences, FiniteSets, TLC

VARIABLES enemy, enemyUpdated, ticks, cfg, world, rnd, op, arg, pre, ret, designated, calls

vars == <<enemy, enemyUpdated, ticks, cfg, world, rnd, op, arg, pre, ret, designated, calls>>

----------------------------------------------------------------------------
(* Bounds of the model *)

\* players other than the controlled one
NumOthers == 2
\* largest troop count of the controlled player, of a neighbor, of an attack
MaxTroops == 2
\* largest number of owned tiles of a neighbor
MaxTiles == 2
\* number of jumps of the clock past the staleness threshold
MaxJumps == 1
\* last tick of the clock that advances tick by tick
MaxTick == 103
\* largest troop count and largest troop capacity of an attacking player
MaxCapacity == 4
\* largest troop count and largest gold balance of a donating player
MaxResources == 9
\* largest number of owned tiles of an alliance requestor
MaxRequestorTiles == 7
\* largest number of alliances an alliance requestor holds
MaxAlliances == 4

----------------------------------------------------------------------------
(* Values *)

Null == -1
TerraNullius == -2
Undefined == -3
Me == 0
Others == 1..NumOthers
Players == 0..NumOthers

Bot == "Bot"
FakeHuman == "FakeHuman"
Human == "Human"

Hostile == 0
Distrustful == 1
Neutral == 2
Friendly == 3

\* forgetOldEnemies: ticks() - enemyUpdated > 100
StaleTicks == 100
\* ratios are multiples of 1/RatioDen (exact as doubles)
RatioDen == 4
assistAcceptEmoji == 1

Range(s) == {s[i] : i \in 1..Len(s)}

\* the ascending sequence of a set of integers
RECURSIVE SetToSeq(_)
SetToSeq(S) ==
  IF S = {} THEN <<>>
  ELSE LET m == CHOOSE x \in S : \A y \in S : x <= y
       IN <<m>> \o SetToSeq(S \ {m})

----------------------------------------------------------------------------
(* Double arithmetic: a number is n/d with d > 0; a quotient of two        *)
(* non-negative integers is a number, Infinity (n/0 with n > 0) or NaN     *)
(* (0/0).  Comparisons with NaN are false.                                 *)

Num(n, d) == [k |-> "num", n |-> n, d |-> d]
Infinity == [k |-> "inf", n |-> 1, d |-> 0]
NaN == [k |-> "nan", n |-> 0, d |-> 0]

Quot(a, b) == IF b # 0 THEN Num(a, b) ELSE IF a = 0 THEN NaN ELSE Infinity

\* x < y
FLt(x, y) ==
  IF x.k = "nan" \/ y.k = "nan" THEN FALSE
  ELSE IF x.k = "inf" THEN FALSE
  ELSE IF y.k = "inf" THEN TRUE
  ELSE x.n * y.d < y.n * x.d

\* x >= y
FGe(x, y) ==
  IF x.k = "nan" \/ y.k = "nan" THEN FALSE
  ELSE IF x.k = "inf" THEN TRUE
  ELSE IF y.k = "inf" THEN FALSE
  ELSE x.n * y.d >= y.n * x.d

----------------------------------------------------------------------------
(* World queries (Game / Player interface) on a snapshot w *)

isPlayer(n) == n # TerraNullius
isFriendly(w, p) == p \in w.friendly
isAlliedWith(w, p) == p \in Range(w.allies)
relation(w, p) == w.relation[p]
type(w, p) == w.ptype[p]
isTraitor(w, p) == w.traitor[p]

\* a world in which nothing is around the controlled player
W0 ==
  [ troops |-> 0, maxTroops |-> 1, gold |-> 0, tiles |-> 1, myType |-> Bot,
    neighbors |-> <<>>,
    ptype |-> [p \in Others |-> Bot],
    ptroops |-> [p \in Others |-> 1],
    ptiles |-> [p \in Others |-> 1],
    traitor |-> [p \in Others |-> FALSE],
    relation |-> [p \in Others |-> Neutral],
    nAlliances |-> [p \in Others |-> 0],
    relationsSorted |-> <<>>,
    friendly |-> {},
    allies |-> <<>>,
    targets |-> [p \in Others |-> <<>>],
    attacks |-> <<>>,
    requests |-> <<>>,
    alliances |-> <<>>,
    ownedTiles |-> <<>>,
    canBuild |-> {} ]

\* what the PseudoRandom answers during one operation: the order shuffleArray
\* gives (shuffle[i] is the index of the i-th neighbor of the shuffled list),
\* chance(2) at position i of the walk, chance(3), the index randElement draws, and
\* chance(1.5) for the i-th alliance
R0 ==
  [shuffle |-> <<>>, chance2 |-> <<>>, chance3 |-> FALSE, randIdx |-> 1,
   chance15 |-> <<>>]

----------------------------------------------------------------------------
(* The controller.  s is its state during one operation:                   *)
(* [enemy, enemyUpdated, ret, designated, calls].                          *)

Call(kind, to, amount) == [kind |-> kind, to |-> to, amount |-> amount]

emoji(s, w, player, e) ==
  IF type(w, player) # Human THEN s
  ELSE [s EXCEPT !.calls = Append(@, Call("EmojiExecution", player, e))]

setNewEnemy(s, newEnemy, now) ==
  [s EXCEPT !.enemy = newEnemy, !.enemyUpdated = now,
            !.designated = Append(@, newEnemy)]

clearEnemy(s) == [s EXCEPT !.enemy = Null]

\* forgetOldEnemies with >= for >
forgetOldEnemiesAtThreshold(s, now) ==
  IF s.enemyUpdated # Undefined /\ now - s.enemyUpdated >= StaleTicks
  THEN clearEnemy(s)
  ELSE s

\* ticks() - undefined is NaN, and NaN > 100 is false
forgetOldEnemies(s, now) ==
  IF s.enemyUpdated # Undefined /\ now - s.enemyUpdated > StaleTicks
  THEN clearEnemy(s)
  ELSE s

\* hasSufficientTroops with the operands of the division swapped
hasSufficientTroopsSwapped(w, c) ==
  LET ratio == Quot(w.maxTroops, w.troops)
  IN FGe(ratio, Num(c.triggerRatio, RatioDen))

hasSufficientTroops(w, c) ==
  LET ratio == Quot(w.troops, w.maxTroops)
  IN FGe(ratio, Num(c.triggerRatio, RatioDen))

\* the loop of checkIncomingAttacks with < for <=
RECURSIVE largestAttackerFromNotSmaller(_, _, _, _)
largestAttackerFromNotSmaller(attacks, i, largestAttack, largestAttacker) ==
  IF i > Len(attacks) THEN largestAttacker
  ELSE IF attacks[i].troops < largestAttack
       THEN largestAttackerFromNotSmaller(attacks, i + 1, largestAttack, largestAttacker)
       ELSE largestAttackerFromNotSmaller(attacks, i + 1, attacks[i].troops,
                                          attacks[i].attacker)

\* the loop of checkIncomingAttacks from attack i on: the largest attacker
RECURSIVE largestAttackerFrom(_, _, _, _)
largestAttackerFrom(attacks, i, largestAttack, largestAttacker) ==
  IF i > Len(attacks) THEN largestAttacker
  ELSE IF attacks[i].troops <= largestAttack
       THEN largestAttackerFrom(attacks, i + 1, largestAttack, largestAttacker)
       ELSE largestAttackerFrom(attacks, i + 1, attacks[i].troops, attacks[i].attacker)

checkIncomingAttacks(s, w, now) ==
  LET largestAttacker == largestAttackerFrom(w.attacks, 1, 0, Undefined)
  IN IF largestAttacker # Undefined THEN setNewEnemy(s, largestAttacker, now) ELSE s

getNeighborTraitorToAttack(w, r) ==
  LET traitors == SelectSeq(w.neighbors, LAMBDA n : isPlayer(n) /\ isTraitor(w, n))
  IN IF Len(traitors) > 0 THEN traitors[((r.randIdx - 1) % Len(traitors)) + 1] ELSE Null

\* enemySanityCheck that returns the enemy without looking at friendliness
enemySanityCheckNoClear(s, w) == [s EXCEPT !.ret = s.enemy]

enemySanityCheck(s, w) ==
  LET s1 == IF s.enemy # Null /\ isFriendly(w, s.enemy) THEN clearEnemy(s) ELSE s
  IN [s1 EXCEPT !.ret = s1.enemy]

\* the inner loop of assistAllies without the check for the controlled player
RECURSIVE firstTargetFromNoSelfCheck(_, _, _)
firstTargetFromNoSelfCheck(w, targets, j) ==
  IF j > Len(targets) THEN Undefined
  ELSE IF isAlliedWith(w, targets[j]) THEN firstTargetFromNoSelfCheck(w, targets, j + 1)
  ELSE targets[j]

\* the inner loop of assistAllies over ally's targets from target j on:
\* the first target that passes the checks, or Undefined
RECURSIVE firstTargetFrom(_, _, _)
firstTargetFrom(w, targets, j) ==
  IF j > Len(targets) THEN Undefined
  ELSE IF targets[j] = Me THEN firstTargetFrom(w, targets, j + 1)
  ELSE IF isAlliedWith(w, targets[j]) THEN firstTargetFrom(w, targets, j + 1)
  ELSE targets[j]

\* the outer loop of assistAllies going on to the next ally after a commitment
RECURSIVE assistFromNoBreak(_, _, _, _)
assistFromNoBreak(s, w, now, i) ==
  IF i > Len(w.allies) THEN s
  ELSE LET ally == w.allies[i] IN
    IF Len(w.targets[ally]) = 0 THEN assistFromNoBreak(s, w, now, i + 1)
    ELSE IF relation(w, ally) < Friendly THEN assistFromNoBreak(s, w, now, i + 1)
    ELSE LET target == firstTargetFrom(w, w.targets[ally], 1) IN
      IF target = Undefined THEN assistFromNoBreak(s, w, now, i + 1)
      ELSE LET s1 == [s EXCEPT !.calls = Append(@, Call("updateRelation", ally, -20))]
               s2 == setNewEnemy(s1, target, now)
           IN assistFromNoBreak(emoji(s2, w, ally, assistAcceptEmoji), w, now, i + 1)

\* the outer loop of assistAllies from ally i on
RECURSIVE assistFrom(_, _, _, _)
assistFrom(s, w, now, i) ==
  IF i > Len(w.allies) THEN s
  ELSE LET ally == w.allies[i] IN
    IF Len(w.targets[ally]) = 0 THEN assistFrom(s, w, now, i + 1)
    ELSE IF relation(w, ally) < Friendly THEN assistFrom(s, w, now, i + 1)
    ELSE LET target == firstTargetFrom(w, w.targets[ally], 1) IN
      IF target = Undefined THEN assistFrom(s, w, now, i + 1)
      ELSE LET s1 == [s EXCEPT !.calls = Append(@, Call("updateRelation", ally, -20))]
               s2 == setNewEnemy(s1, target, now)
           IN emoji(s2, w, ally, assistAcceptEmoji)

assistAllies(s, w, now) == assistFrom(s, w, now, 1)

\* density that is 0 for a player without tiles
densityZeroWithoutTiles(w, p) ==
  IF w.ptiles[p] = 0 THEN Num(0, 1) ELSE Quot(w.ptroops[p], w.ptiles[p])

density(w, p) == Quot(w.ptroops[p], w.ptiles[p])

\* the density loop of selectEnemy taking a bot that is not denser than the lowest so far
RECURSIVE lowestDensityBotFromNotDenser(_, _, _, _, _)
lowestDensityBotFromNotDenser(w, bots, i, lowestDensity, lowestDensityBot) ==
  IF i > Len(bots) THEN lowestDensityBot
  ELSE LET currentDensity == density(w, bots[i]) IN
    IF ~FLt(lowestDensity, currentDensity)
    THEN lowestDensityBotFromNotDenser(w, bots, i + 1, currentDensity, bots[i])
    ELSE lowestDensityBotFromNotDenser(w, bots, i + 1, lowestDensity, lowestDensityBot)

\* the density loop of selectEnemy from bot i on: the lowest-density bot
RECURSIVE lowestDensityBotFrom(_, _, _, _, _)
lowestDensityBotFrom(w, bots, i, lowestDensity, lowestDensityBot) ==
  IF i > Len(bots) THEN lowestDensityBot
  ELSE LET currentDensity == density(w, bots[i]) IN
    IF FLt(currentDensity, lowestDensity)
    THEN lowestDensityBotFrom(w, bots, i + 1, currentDensity, bots[i])
    ELSE lowestDensityBotFrom(w, bots, i + 1, lowestDensity, lowestDensityBot)

\* the density step of selectEnemy leaving out the friendly bots
preferNeighboringBotsNotFriendly(s, w, now) ==
  LET bots == SelectSeq(w.neighbors,
                        LAMBDA n : isPlayer(n) /\ type(w, n) = Bot /\ ~isFriendly(w, n))
  IN IF Len(bots) > 0
     THEN LET lowestDensityBot == lowestDensityBotFrom(w, bots, 1, Infinity, Undefined)
          IN IF lowestDensityBot # Undefined
             THEN setNewEnemy(s, lowestDensityBot, now)
             ELSE s
     ELSE s

\* selectEnemy, lines 157-179: prefer neighboring bots
preferNeighboringBots(s, w, now) ==
  LET bots == SelectSeq(w.neighbors, LAMBDA n : isPlayer(n) /\ type(w, n) = Bot)
  IN IF Len(bots) > 0
     THEN LET lowestDensityBot == lowestDensityBotFrom(w, bots, 1, Infinity, Undefined)
          IN IF lowestDensityBot # Undefined
             THEN setNewEnemy(s, lowestDensityBot, now)
             ELSE s
     ELSE s

\* selectEnemy, lines 186-195: select the most hated player
selectMostHated(s, w, now) ==
  IF Len(w.relationsSorted) > 0 /\ w.relationsSorted[1].relation = Hostile
  THEN setNewEnemy(s, w.relationsSorted[1].player, now)
  ELSE s

\* selectEnemy that checks the troops before it looks at the stored enemy
selectEnemyGateFirst(s, w, c, now) ==
  IF ~hasSufficientTroops(w, c) THEN [s EXCEPT !.ret = Null]
  ELSE IF s.enemy = Null
  THEN LET s1 == preferNeighboringBots(s, w, now)
           s2 == IF s1.enemy = Null THEN checkIncomingAttacks(s1, w, now) ELSE s1
           s3 == IF s2.enemy = Null THEN selectMostHated(s2, w, now) ELSE s2
       IN enemySanityCheck(s3, w)
  ELSE enemySanityCheck(s, w)

\* selectEnemy that runs every step whether or not an earlier one set the enemy
selectEnemyEveryStep(s, w, c, now) ==
  IF s.enemy = Null
  THEN IF ~hasSufficientTroops(w, c) THEN [s EXCEPT !.ret = Null]
       ELSE LET s1 == preferNeighboringBots(s, w, now)
                s2 == checkIncomingAttacks(s1, w, now)
                s3 == selectMostHated(s2, w, now)
            IN enemySanityCheck(s3, w)
  ELSE enemySanityCheck(s, w)

selectEnemy(s, w, c, now) ==
  IF s.enemy = Null
  THEN IF ~hasSufficientTroops(w, c) THEN [s EXCEPT !.ret = Null]
       ELSE LET s1 == preferNeighboringBots(s, w, now)
                s2 == IF s1.enemy = Null THEN checkIncomingAttacks(s1, w, now) ELSE s1
                s3 == IF s2.enemy = Null THEN selectMostHated(s2, w, now) ELSE s2
            IN enemySanityCheck(s3, w)
  ELSE enemySanityCheck(s, w)

\* the neighbor walk of selectRandomEnemy stopping at the first neighbor it designates
RECURSIVE walkFromStopAtFirst(_, _, _, _, _)
walkFromStopAtFirst(s, w, r, now, i) ==
  IF i > Len(w.neighbors) THEN s
  ELSE LET neighbor == w.neighbors[r.shuffle[i]] IN
    IF ~isPlayer(neighbor) THEN walkFromStopAtFirst(s, w, r, now, i + 1)
    ELSE IF isFriendly(w, neighbor) THEN walkFromStopAtFirst(s, w, r, now, i + 1)
    ELSE IF type(w, neighbor) = FakeHuman /\ r.chance2[i]
         THEN walkFromStopAtFirst(s, w, r, now, i + 1)
    ELSE setNewEnemy(s, neighbor, now)

\* the neighbor walk of selectRandomEnemy from position i of the shuffled list on
RECURSIVE walkFrom(_, _, _, _, _)
walkFrom(s, w, r, now, i) ==
  IF i > Len(w.neighbors) THEN s
  ELSE LET neighbor == w.neighbors[r.shuffle[i]] IN
    IF ~isPlayer(neighbor) THEN walkFrom(s, w, r, now, i + 1)
    ELSE IF isFriendly(w, neighbor) THEN walkFrom(s, w, r, now, i + 1)
    ELSE IF type(w, neighbor) = FakeHuman /\ r.chance2[i] THEN walkFrom(s, w, r, now, i + 1)
    ELSE walkFrom(setNewEnemy(s, neighbor, now), w, r, now, i + 1)

\* selectRandomEnemy, lines 225-233: select a traitor as an enemy
selectTraitor(s, w, r, now) ==
  LET toAttack == getNeighborTraitorToAttack(w, r)
  IN IF toAttack # Null /\ ~isFriendly(w, toAttack) /\ r.chance3
     THEN setNewEnemy(s, toAttack, now)
     ELSE s

\* selectRandomEnemy that looks for a traitor whether or not an enemy is set by then
selectRandomEnemyTraitorAnyway(s, w, r, c, now) ==
  IF s.enemy = Null
  THEN IF ~hasSufficientTroops(w, c) THEN [s EXCEPT !.ret = Null]
       ELSE LET s1 == walkFrom(s, w, r, now, 1)
                s2 == IF s1.enemy = Null THEN checkIncomingAttacks(s1, w, now) ELSE s1
                s3 == selectTraitor(s2, w, r, now)
            IN enemySanityCheck(s3, w)
  ELSE enemySanityCheck(s, w)

\* selectRandomEnemy that retaliates whether or not the walk designated a neighbor
selectRandomEnemyAlwaysRetaliates(s, w, r, c, now) ==
  IF s.enemy = Null
  THEN IF ~hasSufficientTroops(w, c) THEN [s EXCEPT !.ret = Null]
       ELSE LET s1 == walkFrom(s, w, r, now, 1)
                s2 == checkIncomingAttacks(s1, w, now)
                s3 == IF s2.enemy = Null THEN selectTraitor(s2, w, r, now) ELSE s2
            IN enemySanityCheck(s3, w)
  ELSE enemySanityCheck(s, w)

selectRandomEnemy(s, w, r, c, now) ==
  IF s.enemy = Null
  THEN IF ~hasSufficientTroops(w, c) THEN [s EXCEPT !.ret = Null]
       ELSE LET s1 == walkFrom(s, w, r, now, 1)
                s2 == IF s1.enemy = Null THEN checkIncomingAttacks(s1, w, now) ELSE s1
                s3 == IF s2.enemy = Null THEN selectTraitor(s2, w, r, now) ELSE s2
            IN enemySanityCheck(s3, w)
  ELSE enemySanityCheck(s, w)

\* sendAttack without the check for a friendly target
sendAttackFriendsToo(s, w, c, target) ==
  LET maxTroops == w.maxTroops
      reserveRatio == IF isPlayer(target) THEN c.reserveRatio ELSE c.expandRatio
      targetTroops == Num(maxTroops * reserveRatio, RatioDen)
      troops == Num(w.troops * RatioDen - targetTroops.n, RatioDen)
  IN IF FLt(troops, Num(1, 1)) THEN s
     ELSE [s EXCEPT !.calls = Append(@, Call("AttackExecution", target, troops))]

\* sendAttack that also refuses to attack with exactly 1 troop
sendAttackMoreThanOne(s, w, c, target) ==
  IF isPlayer(target) /\ isFriendly(w, target) THEN s
  ELSE LET maxTroops == w.maxTroops
           reserveRatio == IF isPlayer(target) THEN c.reserveRatio ELSE c.expandRatio
           targetTroops == Num(maxTroops * reserveRatio, RatioDen)
           troops == Num(w.troops * RatioDen - targetTroops.n, RatioDen)
       IN IF ~FLt(Num(1, 1), troops) THEN s
          ELSE [s EXCEPT !.calls = Append(@, Call("AttackExecution", target, troops))]

\* sendAttack: maxTroops * ratio is maxTroops * num / RatioDen
sendAttack(s, w, c, target) ==
  IF isPlayer(target) /\ isFriendly(w, target) THEN s
  ELSE LET maxTroops == w.maxTroops
           reserveRatio == IF isPlayer(target) THEN c.reserveRatio ELSE c.expandRatio
           targetTroops == Num(maxTroops * reserveRatio, RatioDen)
           troops == Num(w.troops * RatioDen - targetTroops.n, RatioDen)
       IN IF FLt(troops, Num(1, 1)) THEN s
          ELSE [s EXCEPT !.calls = Append(@, Call("AttackExecution", target, troops))]

\* the loop of distributeResourcesToAllies from ally i on
RECURSIVE donateFrom(_, _, _, _, _)
donateFrom(s, allies, i, troopsToSend, goldToSend) ==
  IF i > Len(allies) THEN s
  ELSE LET s1 == IF troopsToSend > 0
                 THEN [s EXCEPT !.calls = Append(@, Call("donateTroops", allies[i], troopsToSend))]
                 ELSE s
           s2 == IF goldToSend > 0
                 THEN [s1 EXCEPT !.calls = Append(@, Call("donateGold", allies[i], goldToSend))]
                 ELSE s1
       IN donateFrom(s2, allies, i + 1, troopsToSend, goldToSend)

\* distributeResourcesToAllies that splits the quarter among the allies
distributeResourcesToAlliesSplit(s, w) ==
  LET allies == w.allies
  IN IF Len(allies) = 0 THEN s
     ELSE LET troopsToSend == (w.troops \div 4) \div Len(allies)
              goldToSend == (w.gold \div 4) \div Len(allies)
          IN IF troopsToSend > 0 \/ goldToSend > 0
             THEN donateFrom(s, allies, 1, troopsToSend, goldToSend)
             ELSE s

distributeResourcesToAllies(s, w) ==
  LET allies == w.allies
  IN IF Len(allies) = 0 THEN s
     ELSE LET troopsToSend == w.troops \div 4
              goldToSend == w.gold \div 4
          IN IF troopsToSend > 0 \/ goldToSend > 0
             THEN donateFrom(s, allies, 1, troopsToSend, goldToSend)
             ELSE s

\* shouldAcceptAllianceRequest with the size check moved to the front
shouldAcceptAllianceRequestSizeFirst(w, requestor) ==
  IF w.ptiles[requestor] > w.tiles * 3 THEN TRUE
  ELSE IF relation(w, requestor) < Neutral THEN FALSE
  ELSE IF isTraitor(w, requestor) THEN FALSE
  ELSE IF w.nAlliances[requestor] >= 3 THEN FALSE
  ELSE TRUE

\* shouldAcceptAllianceRequest with the alliance cap checked before the size
shouldAcceptAllianceRequestCapFirst(w, requestor) ==
  IF relation(w, requestor) < Neutral THEN FALSE
  ELSE IF isTraitor(w, requestor) THEN FALSE
  ELSE IF w.nAlliances[requestor] >= 3 THEN FALSE
  ELSE IF w.ptiles[requestor] > w.tiles * 3 THEN TRUE
  ELSE TRUE

shouldAcceptAllianceRequest(w, requestor) ==
  IF relation(w, requestor) < Neutral THEN FALSE
  ELSE IF isTraitor(w, requestor) THEN FALSE
  ELSE IF w.ptiles[requestor] > w.tiles * 3 THEN TRUE
  ELSE IF w.nAlliances[requestor] >= 3 THEN FALSE
  ELSE TRUE

\* the loop of handleAllianceRequests from request i on
RECURSIVE handleRequestsFrom(_, _, _)
handleRequestsFrom(s, w, i) ==
  IF i > Len(w.requests) THEN s
  ELSE LET req == w.requests[i]
           s1 == IF shouldAcceptAllianceRequest(w, req)
                 THEN [s EXCEPT !.calls = Append(@, Call("accept", req, 0))]
                 ELSE [s EXCEPT !.calls = Append(@, Call("reject", req, 0))]
       IN handleRequestsFrom(s1, w, i + 1)

handleAllianceRequests(s, w) == handleRequestsFrom(s, w, 1)

\* the loop of handleAllianceExtensionRequests from alliance i on
RECURSIVE extendFrom(_, _, _, _)
extendFrom(s, w, r, i) ==
  IF i > Len(w.alliances) THEN s
  ELSE LET alliance == w.alliances[i] IN
    IF ~alliance.onlyOneAgreedToExtend THEN extendFrom(s, w, r, i + 1)
    ELSE LET human == alliance.other IN
      IF w.myType = FakeHuman /\ relation(w, human) = Neutral /\ ~r.chance15[i]
      THEN extendFrom(s, w, r, i + 1)
      ELSE extendFrom([s EXCEPT !.calls =
                         Append(@, Call("AllianceExtensionExecution", human, 0))],
                      w, r, i + 1)

handleAllianceExtensionRequests(s, w, r) == extendFrom(s, w, r, 1)

UnitTypes == <<"City", "Factory", "DefensePost", "MissileSilo", "SAMLauncher">>

\* one loop of buildUnits over the owned tiles from tile i on, for one unit type
RECURSIVE buildFrom(_, _, _, _)
buildFrom(s, w, unit, i) ==
  IF i > Len(w.ownedTiles) THEN s
  ELSE IF <<unit, w.ownedTiles[i]>> \in w.canBuild
       THEN [s EXCEPT !.calls = Append(@, Call("ConstructionExecution", w.ownedTiles[i], unit))]
       ELSE buildFrom(s, w, unit, i + 1)

\* the loops of buildUnits from unit type k on
RECURSIVE buildUnitsFrom(_, _, _)
buildUnitsFrom(s, w, k) ==
  IF k > Len(UnitTypes) THEN s
  ELSE buildUnitsFrom(buildFrom(s, w, UnitTypes[k], 1), w, k + 1)

buildUnits(s, w) == buildUnitsFrom(s, w, 1)

----------------------------------------------------------------------------
(* Actions: one per public operation, on the current world *)

\* the controller at the start of an operation
S0 ==
  [enemy |-> enemy, enemyUpdated |-> enemyUpdated, ret |-> Null,
   designated |-> <<>>, calls |-> <<>>]

\* the operation name with argument a and random answers r leaves the controller as x
Apply(name, a, r, x) ==
  /\ enemy' = x.enemy
  /\ enemyUpdated' = x.enemyUpdated
  /\ ret' = x.ret
  /\ designated' = x.designated
  /\ calls' = x.calls
  /\ rnd' = r
  /\ op' = name
  /\ arg' = a
  /\ pre' = [enemy |-> enemy, enemyUpdated |-> enemyUpdated]
  /\ UNCHANGED <<ticks, cfg, world>>

SelectEnemy == Apply("selectEnemy", Null, R0, selectEnemy(S0, world, cfg, ticks))

SelectRandomEnemy(r) ==
  Apply("selectRandomEnemy", Null, r, selectRandomEnemy(S0, world, r, cfg, ticks))

AssistAllies == Apply("assistAllies", Null, R0, assistAllies(S0, world, ticks))

ForgetOldEnemies == Apply("forgetOldEnemies", Null, R0, forgetOldEnemies(S0, ticks))

SendAttack(target) == Apply("sendAttack", target, R0, sendAttack(S0, world, cfg, target))

DistributeResourcesToAllies ==
  Apply("distributeResourcesToAllies", Null, R0, distributeResourcesToAllies(S0, world))

HandleAllianceRequests ==
  Apply("handleAllianceRequests", Null, R0, handleAllianceRequests(S0, world))

HandleAllianceExtensionRequests(r) ==
  Apply("handleAllianceExtensionRequests", Null, r,
        handleAllianceExtensionRequests(S0, world, r))

BuildUnits == Apply("buildUnits", Null, R0, buildUnits(S0, world))

\* between operations: nothing of the last operation is left to observe
Between ==
  /\ op' = "world"
  /\ arg' = Null
  /\ rnd' = R0
  /\ pre' = [enemy |-> enemy, enemyUpdated |-> enemyUpdated]
  /\ ret' = Null
  /\ designated' = <<>>
  /\ calls' = <<>>
  /\ UNCHANGED <<enemy, enemyUpdated, cfg>>

\* the game clock advances by d ticks, up to cap
Tick(d, cap) ==
  /\ ticks + d <= cap
  /\ ticks' = ticks + d
  /\ UNCHANGED world
  /\ Between

\* the world changes to w
WorldChange(w) ==
  /\ w # world
  /\ world' = w
  /\ UNCHANGED ticks
  /\ Between

\* the state after construction with constructor ratios c, in world w
InitWith(c, w) ==
  /\ enemy = Null
  /\ enemyUpdated = Undefined
  /\ ticks = 0
  /\ cfg = c
  /\ world = w
  /\ rnd = R0
  /\ op = "init"
  /\ arg = Null
  /\ pre = [enemy |-> Null, enemyUpdated |-> Undefined]
  /\ ret = Null
  /\ designated = <<>>
  /\ calls = <<>>

Cfg(t, r, e) == [triggerRatio |-> t, reserveRatio |-> r, expandRatio |-> e]

----------------------------------------------------------------------------
(* Changes of the world, one field at a time *)

\* incoming attacks: at most one attack per attacker, in attacker order
AttackSeqs(troopCounts) ==
  UNION {{[i \in 1..Cardinality(A) |-> [attacker |-> SetToSeq(A)[i], troops |-> f[SetToSeq(A)[i]]]]
            : f \in [A -> troopCounts]} : A \in SUBSET Others}

\* an ally attacks nobody, or the controlled player and then somebody else
TargetSeqsSelf == {<<>>} \cup {<<Me, q>> : q \in Others}


\* the orders of a shuffle of n elements this model follows: as given and reversed
Shuffles(n) == {[i \in 1..n |-> i], [i \in 1..n |-> n + 1 - i]}

\* the random answers with every chance(2) trial answering c2
Draws(n, c2s, c3s) ==
  {[R0 EXCEPT !.shuffle = sh, !.chance2 = [i \in 1..n |-> c2], !.chance3 = c3]
     : sh \in Shuffles(n), c2 \in c2s, c3 \in c3s}

\* troops of the controlled player: none or full
ChangeTroops(w) == {[w EXCEPT !.troops = t] : t \in {0, w.maxTroops}}

\* the neighbors, in player order
ChangeNeighbors(w, sets) == {[w EXCEPT !.neighbors = SetToSeq(nb)] : nb \in sets}

\* one player becomes an ally, a teammate, or neither (friendly is ally or teammate)
ChangeFriendliness(w) ==
  UNION {{[w EXCEPT !.friendly = @ \cup {p}, !.allies = SetToSeq(Range(@) \cup {p})],
          [w EXCEPT !.friendly = @ \cup {p}, !.allies = SetToSeq(Range(@) \ {p})],
          [w EXCEPT !.friendly = @ \ {p}, !.allies = SetToSeq(Range(@) \ {p})]}
           : p \in Others}

ChangeAttacks(w, attackSeqs) == {[w EXCEPT !.attacks = at] : at \in attackSeqs}

\* what the allies are attacking
ChangeTargets(w, targetSeqs) ==
  {[w EXCEPT !.targets = [p \in Others |-> ts]] : ts \in targetSeqs}

----------------------------------------------------------------------------
(* Spec: every operation of the controller that touches the enemy memory,  *)
(* and the others, in a world that changes its friendliness, neighbors,    *)
(* attacks and targets, on a clock that jumps past the staleness           *)
(* threshold.  Player 1 is a Bot, the others are FakeHuman; the last       *)
(* player is a traitor and the one Hostile relation; all the others are    *)
(* neighbors or none is.                                                   *)

WorldSpec ==
  [W0 EXCEPT !.maxTroops = MaxTroops, !.gold = 4,
             !.ptype = [p \in Others |-> IF p = 1 THEN Bot ELSE FakeHuman],
             !.traitor = [p \in Others |-> p = NumOthers],
             !.relation = [p \in Others |-> IF p = NumOthers THEN Hostile ELSE Friendly],
             !.relationsSorted = <<[player |-> NumOthers, relation |-> Hostile]>>,
             !.requests = <<1>>]

ChangesSpec(w) ==
  ChangeTroops(w) \cup ChangeNeighbors(w, {{}, Others}) \cup ChangeFriendliness(w)
    \cup ChangeAttacks(w, {<<>>, <<[attacker |-> 1, troops |-> 1]>>})
    \cup ChangeTargets(w, TargetSeqsSelf)

Init == InitWith(Cfg(2, 2, 1), WorldSpec)

Next ==
  \/ SelectEnemy
  \/ \E r \in Draws(Len(world.neighbors), BOOLEAN, BOOLEAN) : SelectRandomEnemy(r)
  \/ AssistAllies
  \/ ForgetOldEnemies
  \/ \E target \in Others \cup {TerraNullius} : SendAttack(target)
  \/ DistributeResourcesToAllies
  \/ HandleAllianceRequests
  \/ Tick(StaleTicks + 1, MaxJumps * (StaleTicks + 1))
  \/ \E w \in ChangesSpec(world) : WorldChange(w)

Spec == Init /\ [][Next]_vars

Selections == {"selectEnemy", "selectRandomEnemy"}

\* C1: what selectEnemy and selectRandomEnemy return is null or a player that is
\* not friendly to the controlled player at the moment of return, and a stored
\* enemy that is friendly at that moment is cleared and null is returned.
C1_ReturnedEnemyNotFriendly ==
  op \in Selections =>
    /\ ret = Null \/ (ret \in Others /\ ~isFriendly(world, ret))
    /\ (pre.enemy # Null /\ isFriendly(world, pre.enemy)) => (enemy = Null /\ ret = Null)

\* a selection found the stored enemy friendly and cleared it
C1_Witness ==
  /\ op \in Selections
  /\ pre.enemy # Null
  /\ isFriendly(world, pre.enemy)
  /\ enemy = Null
  /\ ret = Null

\* C3: with no enemy set and troops/maxTroops below triggerRatio, selectEnemy and
\* selectRandomEnemy return null and leave enemy and enemyUpdated as they were,
\* whatever neighbors, incoming attacks or hostile relations there are.
C3_InsufficientTroopsSelectsNothing ==
  (/\ op \in Selections
   /\ pre.enemy = Null
   /\ world.troops * RatioDen < cfg.triggerRatio * world.maxTroops)
  => (/\ ret = Null
      /\ enemy = Null
      /\ enemyUpdated = pre.enemyUpdated
      /\ designated = <<>>)

\* selectEnemy declined although a bot neighbor, an attack and a hostile relation exist
C3_Witness ==
  /\ op = "selectEnemy"
  /\ pre.enemy = Null
  /\ world.troops * RatioDen < cfg.triggerRatio * world.maxTroops
  /\ \E i \in 1..Len(world.neighbors) : type(world, world.neighbors[i]) = Bot
  /\ world.attacks # <<>>
  /\ world.relationsSorted # <<>>
  /\ ret = Null
  /\ enemy = Null

\* C10: the stored enemy is null or a player other than the controlled player.
C10_EnemyIsNeverSelf == enemy = Null \/ (enemy \in Others /\ enemy # Me)

\* assistAllies passed over the controlled player in an ally's targets and took the next
C10_Witness ==
  /\ op = "assistAllies"
  /\ \E a \in Range(world.allies) :
       /\ Len(world.targets[a]) = 2
       /\ world.targets[a][1] = Me
       /\ designated = <<world.targets[a][2]>>
  /\ enemy # Null

\* C17: with an enemy set that is not friendly, selectEnemy and selectRandomEnemy
\* return that enemy and change neither the enemy nor its timestamp, also when
\* troops/maxTroops is below triggerRatio.
C17_StoredEnemyReturnedWhateverTheTroops ==
  (/\ op \in Selections
   /\ pre.enemy # Null
   /\ ~isFriendly(world, pre.enemy))
  => (/\ ret = pre.enemy
      /\ enemy = pre.enemy
      /\ enemyUpdated = pre.enemyUpdated
      /\ designated = <<>>)

\* selectEnemy returned the enemy that assistAllies had set, with troops below the
\* trigger ratio
C17_Witness ==
  /\ op = "selectEnemy"
  /\ pre.enemy # Null
  /\ ~isFriendly(world, pre.enemy)
  /\ world.troops * RatioDen < cfg.triggerRatio * world.maxTroops
  /\ ret = pre.enemy
  /\ enemy = pre.enemy

\* the same for selectRandomEnemy
C17_WitnessRandom ==
  /\ op = "selectRandomEnemy"
  /\ pre.enemy # Null
  /\ ~isFriendly(world, pre.enemy)
  /\ world.troops * RatioDen < cfg.triggerRatio * world.maxTroops
  /\ ret = pre.enemy
  /\ enemy = pre.enemy

----------------------------------------------------------------------------
(* SpecForget: the clock advances tick by tick; a Bot neighbor is there to *)
(* be selected whenever no enemy is set, and forgetOldEnemies is called at *)
(* any tick.                                                               *)

WorldForget ==
  [W0 EXCEPT !.troops = MaxTroops, !.maxTroops = MaxTroops, !.neighbors = <<1>>]

InitForget == InitWith(Cfg(2, 2, 1), WorldForget)

NextForget ==
  \/ SelectEnemy
  \/ ForgetOldEnemies
  \/ Tick(1, MaxTick)

SpecForget == InitForget /\ [][NextForget]_vars

\* C2: an enemy set at tick T and not set again is kept by every forgetOldEnemies
\* called at a tick t <= T + 100 and cleared by the one called at tick T + 101
\* (the threshold is ticks - enemyUpdated > 100).
C2_ForgottenAfterExactly100Ticks ==
  (op = "forgetOldEnemies" /\ pre.enemy # Null) =>
    /\ pre.enemyUpdated # Undefined
    /\ enemyUpdated = pre.enemyUpdated
    /\ ticks <= pre.enemyUpdated + StaleTicks => enemy = pre.enemy
    /\ ticks >= pre.enemyUpdated + StaleTicks + 1 => enemy = Null

\* forgetOldEnemies cleared, at tick T + 101, an enemy set at a tick T > 0
C2_Witness ==
  /\ op = "forgetOldEnemies"
  /\ pre.enemy # Null
  /\ pre.enemyUpdated > 0
  /\ ticks = pre.enemyUpdated + StaleTicks + 1
  /\ enemy = Null

\* forgetOldEnemies kept, at tick T + 100, an enemy set at tick T
C2_WitnessKept ==
  /\ op = "forgetOldEnemies"
  /\ pre.enemy # Null
  /\ ticks = pre.enemyUpdated + StaleTicks
  /\ enemy = pre.enemy

----------------------------------------------------------------------------
(* SpecDensity: selectEnemy in every world of TerraNullius and all the     *)
(* other players as neighbors, each a Bot or a FakeHuman with some troops  *)
(* on some tiles, with no attack and no relation.                          *)

WorldsDensity ==
  {[W0 EXCEPT !.troops = t, !.maxTroops = MaxTroops,
              !.neighbors = <<TerraNullius>> \o SetToSeq(Others),
              !.ptype = ty, !.ptroops = tr, !.ptiles = tl]
     : t \in {0, MaxTroops}, ty \in [Others -> {Bot, FakeHuman}],
       tr \in [Others -> 0..MaxTroops], tl \in [Others -> 0..MaxTiles]}

InitDensity == \E w \in WorldsDensity : InitWith(Cfg(2, 2, 1), w)

NextDensity == SelectEnemy

SpecDensity == InitDensity /\ [][NextDensity]_vars

\* the positions of the Bot players in the neighbor enumeration
BotPositions(w) ==
  {i \in 1..Len(w.neighbors) :
     isPlayer(w.neighbors[i]) /\ w.ptype[w.neighbors[i]] = Bot}

\* troops(a) / tiles(a) < troops(b) / tiles(b), a player without tiles being denser
\* than any player with tiles
LowerDensity(w, a, b) ==
  /\ w.ptiles[a] > 0
  /\ w.ptiles[b] = 0 \/ w.ptroops[a] * w.ptiles[b] < w.ptroops[b] * w.ptiles[a]

\* the player at position i is the earliest of the lowest density among positions
EarliestLowest(w, positions, i) ==
  /\ i \in positions
  /\ \A j \in positions : ~LowerDensity(w, w.neighbors[j], w.neighbors[i])
  /\ \A j \in positions : j < i => LowerDensity(w, w.neighbors[i], w.neighbors[j])

\* selectEnemy was called with no enemy set and troops/maxTroops >= triggerRatio
SelectedAfresh ==
  /\ op = "selectEnemy"
  /\ pre.enemy = Null
  /\ world.troops * RatioDen >= cfg.triggerRatio * world.maxTroops

\* C4 as claimed: with a Bot neighbor, selectEnemy designates the Bot neighbor of
\* the lowest troops/tiles density, the earliest enumerated among ties.
C4_LowestDensityBotDesignated ==
  (SelectedAfresh /\ BotPositions(world) # {}) =>
    \E i \in BotPositions(world) :
      /\ EarliestLowest(world, BotPositions(world), i)
      /\ designated = <<world.neighbors[i]>>

\* C4 as amended: with a Bot neighbor that owns a tile, selectEnemy designates the
\* Bot neighbor of the lowest troops/tiles density among the Bot neighbors that own
\* a tile, the earliest enumerated among ties; when no Bot neighbor owns a tile the
\* density step designates nobody.
C4_LowestDensityBotWithTilesDesignated ==
  SelectedAfresh =>
    LET withTiles == {i \in BotPositions(world) : world.ptiles[world.neighbors[i]] > 0}
    IN IF withTiles = {} THEN designated = <<>>
       ELSE \E i \in withTiles :
              /\ EarliestLowest(world, withTiles, i)
              /\ designated = <<world.neighbors[i]>>

\* two Bot neighbors of the same lowest density, and the earlier one was designated
C4_Witness ==
  /\ SelectedAfresh
  /\ \E i, j \in BotPositions(world) :
       /\ i < j
       /\ world.ptiles[world.neighbors[i]] > 0
       /\ world.ptiles[world.neighbors[j]] > 0
       /\ world.ptiles[world.neighbors[i]] # world.ptiles[world.neighbors[j]]
       /\ ~LowerDensity(world, world.neighbors[i], world.neighbors[j])
       /\ ~LowerDensity(world, world.neighbors[j], world.neighbors[i])
       /\ designated = <<world.neighbors[i]>>
  /\ enemy = designated[1]

\* the positions of the Bot neighbors that own no tile
ZeroTileBotPositions ==
  {i \in BotPositions(world) : world.ptiles[world.neighbors[i]] = 0}

\* C18: in the density step of selectEnemy a Bot neighbor that owns no tile, with
\* or without troops and wherever it is enumerated, is never designated, the call
\* still returns null or a player, and the Bot neighbor of the lowest density among
\* those that own a tile (the earliest among ties) is designated as if the
\* tile-less neighbor were not there.
C18_ZeroTileBotLeftOut ==
  (SelectedAfresh /\ ZeroTileBotPositions # {}) =>
    LET others == BotPositions(world) \ ZeroTileBotPositions
    IN /\ \A k \in 1..Len(designated) : world.ptiles[designated[k]] > 0
       /\ ret \in Others \cup {Null}
       /\ ret = enemy
       /\ others # {} =>
            \E i \in others :
              /\ EarliestLowest(world, others, i)
              /\ enemy = world.neighbors[i]
              /\ enemyUpdated = ticks
       /\ others = {} => (enemy = Null /\ enemyUpdated = pre.enemyUpdated)

\* a Bot neighbor with troops and no tile is enumerated first, and the Bot neighbor
\* with tiles after it became the enemy
C18_Witness ==
  /\ SelectedAfresh
  /\ \E i \in ZeroTileBotPositions, j \in BotPositions(world) :
       /\ i < j
       /\ world.ptroops[world.neighbors[i]] > 0
       /\ world.ptiles[world.neighbors[j]] > 0
       /\ world.ptroops[world.neighbors[j]] > 0
       /\ enemy = world.neighbors[j]

\* a Bot neighbor with neither troops nor tiles is enumerated last, and the Bot
\* neighbor with tiles before it became the enemy
C18_WitnessNoTroopsLast ==
  /\ SelectedAfresh
  /\ \E i \in ZeroTileBotPositions, j \in BotPositions(world) :
       /\ j < i
       /\ world.ptroops[world.neighbors[i]] = 0
       /\ world.ptiles[world.neighbors[j]] > 0
       /\ enemy = world.neighbors[j]

----------------------------------------------------------------------------
(* SpecRandom: selectRandomEnemy in every world of TerraNullius and some   *)
(* of the other players as neighbors (player 1 a Bot, the others           *)
(* FakeHuman), some of the players friendly, and at most one attack of 0   *)
(* to MaxTroops troops from each player; no traitors.                      *)

WorldsRandom ==
  {[W0 EXCEPT !.troops = t, !.maxTroops = MaxTroops,
              !.neighbors = <<TerraNullius>> \o SetToSeq(nb),
              !.ptype = [p \in Others |-> IF p = 1 THEN Bot ELSE FakeHuman],
              !.friendly = fr, !.attacks = at]
     : t \in {0, MaxTroops}, nb \in SUBSET Others, fr \in SUBSET Others,
       at \in AttackSeqs(0..MaxTroops)}

InitRandom == \E w \in WorldsRandom : InitWith(Cfg(2, 2, 1), w)

NextRandom ==
  \E r \in Draws(Len(world.neighbors), BOOLEAN, {FALSE}) : SelectRandomEnemy(r)

SpecRandom == InitRandom /\ [][NextRandom]_vars

\* selectRandomEnemy was called with no enemy set and troops/maxTroops >= triggerRatio
SelectedRandomAfresh ==
  /\ op = "selectRandomEnemy"
  /\ pre.enemy = Null
  /\ world.troops * RatioDen >= cfg.triggerRatio * world.maxTroops

\* the neighbor at position i of the shuffled list passes the walk's filters
Qualifies(i) ==
  LET n == world.neighbors[rnd.shuffle[i]]
  IN /\ isPlayer(n)
     /\ n \notin world.friendly
     /\ ~(world.ptype[n] = FakeHuman /\ rnd.chance2[i])

\* attack k is the first enumerated of the attacks of the largest troop count
FirstLargestAttack(k) ==
  /\ k \in 1..Len(world.attacks)
  /\ \A j \in 1..Len(world.attacks) : world.attacks[j].troops <= world.attacks[k].troops
  /\ \A j \in 1..(k - 1) : world.attacks[j].troops < world.attacks[k].troops

\* C5 as claimed: under attack from several players, selectRandomEnemy makes the
\* attacker of the largest troop count the enemy, whatever the neighbors.
C5_LargestAttackerWhateverTheNeighbors ==
  (/\ SelectedRandomAfresh
   /\ Len(world.attacks) >= 2
   /\ \A j \in 1..Len(world.attacks) : world.attacks[j].troops > 0)
  => \E k \in 1..Len(world.attacks) :
       /\ FirstLargestAttack(k)
       /\ designated # <<>>
       /\ designated[Len(designated)] = world.attacks[k].attacker

\* C5 as amended: under attack, selectRandomEnemy makes the attacker of the largest
\* positive troop count (the first enumerated among ties) the enemy only when the
\* neighbor walk designated nobody; when a neighbor passes the walk's filters, only
\* such neighbors are designated and the attackers are not consulted.
C5_LargestAttackerIfWalkDesignatesNobody ==
  (SelectedRandomAfresh /\ world.attacks # <<>>) =>
    IF \E i \in 1..Len(world.neighbors) : Qualifies(i)
    THEN /\ designated # <<>>
         /\ \A d \in 1..Len(designated) :
              \E i \in 1..Len(world.neighbors) :
                Qualifies(i) /\ designated[d] = world.neighbors[rnd.shuffle[i]]
    ELSE \E k \in 1..Len(world.attacks) :
           /\ FirstLargestAttack(k)
           /\ IF world.attacks[k].troops > 0
              THEN designated = <<world.attacks[k].attacker>>
              ELSE designated = <<>>

\* the walk passed over a player neighbor, and of two attacks the larger,
\* enumerated second, gave the enemy
C5_Witness ==
  /\ SelectedRandomAfresh
  /\ Len(world.neighbors) >= 2
  /\ ~\E i \in 1..Len(world.neighbors) : Qualifies(i)
  /\ Len(world.attacks) >= 2
  /\ 0 < world.attacks[1].troops
  /\ world.attacks[1].troops < world.attacks[2].troops
  /\ designated = <<world.attacks[2].attacker>>

\* the positions of the shuffled list whose neighbor passes the walk's filters
QualifyingPositions ==
  SelectSeq([i \in 1..Len(world.neighbors) |-> i], LAMBDA i : Qualifies(i))

\* C16: in selectRandomEnemy with no enemy set and sufficient troops, the walk goes
\* through the whole shuffled list: it designates every neighbor that is a player,
\* not friendly and (if FakeHuman) not skipped by the random trial, in shuffled
\* order, so the last of them is the enemy the call ends with; neighbors that are
\* not players or are friendly are not designated.
C16_WalkDesignatesLastQualifying ==
  (SelectedRandomAfresh /\ QualifyingPositions # <<>>) =>
    LET last == QualifyingPositions[Len(QualifyingPositions)]
    IN /\ designated = [k \in 1..Len(QualifyingPositions) |->
                          world.neighbors[rnd.shuffle[QualifyingPositions[k]]]]
       /\ enemy = world.neighbors[rnd.shuffle[last]]
       /\ ret = enemy
       /\ enemyUpdated = ticks
       /\ \A k \in 1..Len(designated) :
            isPlayer(designated[k]) /\ ~isFriendly(world, designated[k])

\* two neighbors qualified in a list shuffled into reverse: the enemy is the one
\* the walk met last, which comes first in the unshuffled list after unclaimed land
C16_Witness ==
  /\ SelectedRandomAfresh
  /\ Len(QualifyingPositions) = 2
  /\ rnd.shuffle[1] = Len(world.neighbors)
  /\ world.neighbors[1] = TerraNullius
  /\ enemy = world.neighbors[2]
  /\ designated = <<world.neighbors[3], world.neighbors[2]>>

\* a friendly neighbor met last was passed over
C16_WitnessFriendlyLast ==
  /\ SelectedRandomAfresh
  /\ Len(QualifyingPositions) = 1
  /\ QualifyingPositions[1] < Len(world.neighbors)
  /\ isPlayer(world.neighbors[rnd.shuffle[Len(world.neighbors)]])
  /\ isFriendly(world, world.neighbors[rnd.shuffle[Len(world.neighbors)]])
  /\ enemy # Null

----------------------------------------------------------------------------
(* SpecAlliance: handleAllianceRequests in every world where player 1      *)
(* requests an alliance, alone or before or after the last player, at any  *)
(* relation level, traitor or not, with 0 to MaxRequestorTiles tiles and 0 *)
(* to MaxAlliances alliances, the controlled player owning 1 or 2 tiles.   *)
(* The last player is a Neutral non-traitor with one tile and no alliance. *)

WorldsAlliance ==
  {[W0 EXCEPT !.tiles = mine, !.requests = rq,
              !.relation[1] = rl, !.traitor[1] = tr, !.ptiles[1] = tl, !.nAlliances[1] = na]
     : mine \in {1, 2}, rq \in {<<1>>, <<1, NumOthers>>, <<NumOthers, 1>>},
       rl \in Hostile..Friendly, tr \in BOOLEAN, tl \in 0..MaxRequestorTiles,
       na \in 0..MaxAlliances}

InitAlliance == \E w \in WorldsAlliance : InitWith(Cfg(2, 2, 1), w)

NextAlliance == HandleAllianceRequests

SpecAlliance == InitAlliance /\ [][NextAlliance]_vars

\* handleAllianceRequests answered every request, in order
Answered ==
  /\ op = "handleAllianceRequests"
  /\ Len(calls) = Len(world.requests)
  /\ \A i \in 1..Len(calls) :
       calls[i].to = world.requests[i] /\ calls[i].kind \in {"accept", "reject"}

\* C6: a request whose requestor the controlled player relates to below Neutral is
\* rejected whatever the traitor flag, the requestor's tiles and its alliances:
\* handleAllianceRequests calls reject on it and never accept.
C6_MaliceAlwaysRejected ==
  op = "handleAllianceRequests" =>
    /\ Answered
    /\ \A i \in 1..Len(world.requests) :
         world.relation[world.requests[i]] < Neutral => calls[i].kind = "reject"

\* a non-traitor requestor below Neutral with more than 4 times the tiles and fewer
\* than 3 alliances was rejected
C6_Witness ==
  /\ Answered
  /\ \E i \in 1..Len(world.requests) :
       LET q == world.requests[i]
       IN /\ world.relation[q] < Neutral
          /\ ~world.traitor[q]
          /\ world.ptiles[q] > 4 * world.tiles
          /\ world.nAlliances[q] < 3
          /\ calls[i].kind = "reject"

\* C7 as claimed: a non-traitor requestor at Neutral or above with 3 times the
\* controlled player's tiles or more is accepted, even with 3 or more alliances.
C7_ThreeTimesOrMoreAccepted ==
  op = "handleAllianceRequests" =>
    \A i \in 1..Len(world.requests) :
      LET q == world.requests[i]
      IN (/\ world.relation[q] >= Neutral
          /\ ~world.traitor[q]
          /\ world.ptiles[q] >= 3 * world.tiles)
         => calls[i].kind = "accept"

\* C7 as amended: a non-traitor requestor at Neutral or above with MORE THAN 3 times
\* the controlled player's tiles is accepted, even with 3 or more alliances; with
\* exactly 3 times the tiles the alliance cap still applies.
C7_MoreThanThreeTimesAccepted ==
  op = "handleAllianceRequests" =>
    /\ Answered
    /\ \A i \in 1..Len(world.requests) :
         LET q == world.requests[i]
         IN /\ (/\ world.relation[q] >= Neutral
                /\ ~world.traitor[q]
                /\ world.ptiles[q] > 3 * world.tiles)
               => calls[i].kind = "accept"
            /\ (/\ world.relation[q] >= Neutral
                /\ ~world.traitor[q]
                /\ world.ptiles[q] = 3 * world.tiles)
               => (calls[i].kind = "accept" <=> world.nAlliances[q] < 3)

\* a requestor with more than 3 times the tiles and 3 or more alliances was accepted
C7_Witness ==
  /\ Answered
  /\ \E i \in 1..Len(world.requests) :
       LET q == world.requests[i]
       IN /\ world.relation[q] >= Neutral
          /\ ~world.traitor[q]
          /\ world.ptiles[q] > 3 * world.tiles
          /\ world.nAlliances[q] >= 3
          /\ calls[i].kind = "accept"

----------------------------------------------------------------------------
(* SpecAttack: sendAttack on any player or on TerraNullius, for every      *)
(* reserveRatio and expandRatio from 0 to 1 in steps of 1/RatioDen, every  *)
(* troop count and capacity up to MaxCapacity and every set of friends.    *)

WorldsAttack ==
  {[W0 EXCEPT !.troops = t, !.maxTroops = m, !.friendly = fr]
     : t \in 0..MaxCapacity, m \in 1..MaxCapacity, fr \in SUBSET Others}

InitAttack ==
  \E w \in WorldsAttack, r \in 0..RatioDen, e \in 0..RatioDen : InitWith(Cfg(2, r, e), w)

NextAttack == \E target \in Others \cup {TerraNullius} : SendAttack(target)

SpecAttack == InitAttack /\ [][NextAttack]_vars

\* RatioDen times the reserve floor of an attack on target
ReserveFloorTimesDen(target) ==
  world.maxTroops * (IF target = TerraNullius THEN cfg.expandRatio ELSE cfg.reserveRatio)

\* C8: on a target that is not friendly, sendAttack emits nothing when the reserve
\* floor (maxTroops x reserveRatio for a player, maxTroops x expandRatio for
\* unclaimed land) is at least the troop count, emits exactly one intent of exactly
\* 1 troop when troops = floor + 1, and every intent it emits carries
\* troops - floor, which is at least 1.
C8_AttackCarriesTroopsAboveReserve ==
  (op = "sendAttack" /\ (arg = TerraNullius \/ arg \notin world.friendly)) =>
    LET floorN == ReserveFloorTimesDen(arg)
        troopsN == world.troops * RatioDen
    IN /\ Len(calls) <= 1
       /\ floorN >= troopsN => calls = <<>>
       /\ troopsN = floorN + RatioDen =>
            /\ Len(calls) = 1
            /\ calls[1].amount.n = calls[1].amount.d
       /\ troopsN >= floorN + RatioDen => Len(calls) = 1
       /\ \A i \in 1..Len(calls) :
            /\ calls[i].kind = "AttackExecution"
            /\ calls[i].to = arg
            /\ calls[i].amount.d > 0
            /\ calls[i].amount.n * RatioDen = (troopsN - floorN) * calls[i].amount.d
            /\ calls[i].amount.n >= calls[i].amount.d

\* an attack of exactly 1 troop on a player, above a reserve floor that is not 0
C8_Witness ==
  /\ op = "sendAttack"
  /\ arg \in Others
  /\ arg \notin world.friendly
  /\ ReserveFloorTimesDen(arg) > 0
  /\ world.troops * RatioDen = ReserveFloorTimesDen(arg) + RatioDen
  /\ Len(calls) = 1
  /\ calls[1].amount.n = calls[1].amount.d

\* C12: sendAttack with a target that is a player friendly to the controlled
\* player (ally or teammate) emits no attack intent, nor anything else, and leaves
\* the enemy memory as it was, whatever the troops and the ratios.
C12_FriendlyTargetNeverAttacked ==
  (op = "sendAttack" /\ isPlayer(arg) /\ isFriendly(world, arg)) =>
    /\ calls = <<>>
    /\ designated = <<>>
    /\ enemy = pre.enemy
    /\ enemyUpdated = pre.enemyUpdated

\* a friendly player was spared although the troops above the reserve floor
\* would have made an attack of at least 1
C12_Witness ==
  /\ op = "sendAttack"
  /\ isPlayer(arg)
  /\ isFriendly(world, arg)
  /\ world.troops * RatioDen - ReserveFloorTimesDen(arg) >= RatioDen
  /\ calls = <<>>

----------------------------------------------------------------------------
(* SpecDonate: distributeResourcesToAllies for every troop count and gold  *)
(* balance up to MaxResources and every set of allies.                     *)

WorldsDonate ==
  {[W0 EXCEPT !.troops = t, !.gold = g, !.allies = SetToSeq(al), !.friendly = al]
     : t \in 0..MaxResources, g \in 0..MaxResources, al \in SUBSET Others}

InitDonate == \E w \in WorldsDonate : InitWith(Cfg(2, 2, 1), w)

NextDonate == DistributeResourcesToAllies

SpecDonate == InitDonate /\ [][NextDonate]_vars

\* what one ally is to receive: a quarter of the troops (rounded down) if that is
\* positive, then a quarter of the gold (integer division) if that is positive
ShareOf(ally) ==
  (IF world.troops \div 4 > 0
   THEN <<Call("donateTroops", ally, world.troops \div 4)>> ELSE <<>>)
  \o (IF world.gold \div 4 > 0
      THEN <<Call("donateGold", ally, world.gold \div 4)>> ELSE <<>>)

\* C9: distributeResourcesToAllies donates to EVERY ally the full
\* floor(troops x 0.25) if positive and, independently, the full gold / 4 if
\* positive, both computed from the balances at the start of the call (so 3 troops
\* give no troop donation while gold >= 4 is still donated); with no allies
\* nothing is donated.
C9_EveryAllyReceivesTheFullQuarter ==
  op = "distributeResourcesToAllies" =>
    /\ \A i \in 1..Len(calls) : calls[i].to \in Range(world.allies)
    /\ \A a \in Range(world.allies) :
         SelectSeq(calls, LAMBDA c : c.to = a) = ShareOf(a)
    /\ \A i, j \in 1..Len(world.allies) :
         \A k, l \in 1..Len(calls) :
           (i < j /\ calls[k].to = world.allies[i] /\ calls[l].to = world.allies[j]) => k < l
    /\ world.allies = <<>> => calls = <<>>

\* with 3 troops and one ally, gold was donated and no troops were
C9_Witness ==
  /\ op = "distributeResourcesToAllies"
  /\ world.troops = 3
  /\ Len(world.allies) = 1
  /\ world.gold >= 4
  /\ calls = <<Call("donateGold", world.allies[1], world.gold \div 4)>>

\* two allies each received the full quarter of troops and of gold
C9_WitnessTwoAllies ==
  /\ op = "distributeResourcesToAllies"
  /\ Len(world.allies) >= 2
  /\ Len(calls) = 2 * Len(world.allies)
  /\ \A i \in 1..Len(calls) : calls[i].amount = 2

----------------------------------------------------------------------------
(* SpecEffects: every operation of the controller, called in a world drawn *)
(* at the start: the controlled player is a Bot or a FakeHuman with troops *)
(* and gold to give, alliances that may be waiting for an extension,       *)
(* allies that attack somebody, an alliance request, and tiles on which    *)
(* nothing, a City, or everything can be built.                            *)

\* the alliances, in player order; each is quiet or waits for one side to extend
AllianceSeqs ==
  {SelectSeq([i \in 1..NumOthers |-> [other |-> i, onlyOneAgreedToExtend |-> f[i] = "asked"]],
             LAMBDA a : f[a.other] # "none")
     : f \in [Others -> {"none", "quiet", "asked"}]}

CanBuilds ==
  {{}, {<<"City", 2>>}, {<<UnitTypes[k], 1>> : k \in 1..Len(UnitTypes)}}

WorldEffects(t, mt, rel, al, rq, cb) ==
  [W0 EXCEPT !.troops = t, !.maxTroops = MaxCapacity, !.gold = 4, !.myType = mt,
             !.neighbors = SetToSeq(Others),
             !.ptype = [p \in Others |-> Human],
             !.relation = rel,
             !.alliances = al,
             !.allies = [i \in 1..Len(al) |-> al[i].other],
             !.friendly = {al[i].other : i \in 1..Len(al)},
             !.targets = [p \in Others |-> <<Me, (p % NumOthers) + 1>>],
             !.requests = rq,
             !.ownedTiles = <<1, 2>>, !.tiles = 2,
             !.canBuild = cb]

InitEffects ==
  \E t \in {0, MaxCapacity}, mt \in {Bot, FakeHuman},
     rel \in [Others -> {Neutral, Friendly}], al \in AllianceSeqs,
     rq \in {<<>>, <<1>>}, cb \in CanBuilds :
    InitWith(Cfg(2, 1, 1), WorldEffects(t, mt, rel, al, rq, cb))

\* chance(1.5) answers the same for every alliance of one call
DrawsExtension(n) == {[R0 EXCEPT !.chance15 = [i \in 1..n |-> c]] : c \in BOOLEAN}

NextEffects ==
  \/ SelectEnemy
  \/ \E r \in Draws(Len(world.neighbors), {FALSE}, {FALSE}) : SelectRandomEnemy(r)
  \/ AssistAllies
  \/ ForgetOldEnemies
  \/ \E target \in Others \cup {TerraNullius} : SendAttack(target)
  \/ DistributeResourcesToAllies
  \/ HandleAllianceRequests
  \/ \E r \in DrawsExtension(Len(world.alliances)) : HandleAllianceExtensionRequests(r)
  \/ BuildUnits

SpecEffects == InitEffects /\ [][NextEffects]_vars

\* what the controller hands to game.addExecution
Intents ==
  {"EmojiExecution", "AttackExecution", "AllianceExtensionExecution",
   "ConstructionExecution"}

\* C11: apart from the relation decrement of 20 in assistAllies, every effect of
\* every operation on the world is an intent enqueued on the execution sink.
C11_EveryOtherEffectIsAnIntent ==
  \A i \in 1..Len(calls) :
    \/ calls[i].kind \in Intents
    \/ (calls[i].kind = "updateRelation" /\ calls[i].amount = -20 /\ op = "assistAllies")

----------------------------------------------------------------------------
(* SpecAssist: assistAllies in a world drawn at the start: the allies in   *)
(* either order, each Neutral or Friendly to the controlled player, each   *)
(* attacking up to two of: the controlled player, player 1, and a stranger *)
(* (a player that is neither ally nor neighbor).  Player 1 is Human.       *)

Stranger == NumOthers + 1

\* what one ally attacks
TargetSeqs ==
  LET T == {Me, 1, Stranger}
  IN {<<>>} \cup {<<a>> : a \in T} \cup {<<a, b>> : a, b \in T}

\* the allies, in player order or reversed
AllySeqs ==
  UNION {{SetToSeq(A), [i \in 1..Cardinality(A) |-> SetToSeq(A)[Cardinality(A) + 1 - i]]}
           : A \in SUBSET Others}

WorldAssist(al, rel, tg) ==
  [W0 EXCEPT !.allies = al, !.friendly = Range(al),
             !.ptype = [p \in Others |-> IF p = 1 THEN Human ELSE Bot],
             !.relation = rel, !.targets = tg]

InitAssist ==
  \E al \in AllySeqs, rel \in [Others -> {Neutral, Friendly}],
     tg \in [Others -> TargetSeqs] :
    InitWith(Cfg(2, 2, 1), WorldAssist(al, rel, tg))

NextAssist == AssistAllies

SpecAssist == InitAssist /\ [][NextAssist]_vars

\* target j of ally i passes every check of assistAllies
QualifyingPair(i, j) ==
  LET ally == world.allies[i]
  IN /\ relation(world, ally) >= Friendly
     /\ j \in 1..Len(world.targets[ally])
     /\ world.targets[ally][j] # Me
     /\ world.targets[ally][j] \notin Range(world.allies)

QualifyingPairs ==
  {p \in (1..Len(world.allies)) \X (1..2) : QualifyingPair(p[1], p[2])}

\* the first qualifying pair in scanning order
FirstQualifyingPair ==
  CHOOSE p \in QualifyingPairs :
    \A q \in QualifyingPairs : p[1] < q[1] \/ (p[1] = q[1] /\ p[2] <= q[2])

\* C13: one call of assistAllies commits at most once: on the first qualifying
\* (ally, target) pair in scanning order it lowers the relation toward that ally
\* by 20 exactly once, makes that target the enemy at the current tick and does
\* nothing for any later pair (besides the emoji to a Human ally); when no pair
\* qualifies, no relation changes and the enemy memory is as before.
C13_FirstQualifyingPairOnly ==
  op = "assistAllies" =>
    IF QualifyingPairs = {}
    THEN /\ calls = <<>>
         /\ designated = <<>>
         /\ enemy = pre.enemy
         /\ enemyUpdated = pre.enemyUpdated
    ELSE LET ally == world.allies[FirstQualifyingPair[1]]
             target == world.targets[ally][FirstQualifyingPair[2]]
         IN /\ designated = <<target>>
            /\ enemy = target
            /\ enemyUpdated = ticks
            /\ calls = <<Call("updateRelation", ally, -20)>>
                          \o (IF type(world, ally) = Human
                              THEN <<Call("EmojiExecution", ally, assistAcceptEmoji)>>
                              ELSE <<>>)

\* both allies have a qualifying target; the first ally's second target was taken
\* (its first is the controlled player) and the second ally's was left alone
C13_Witness ==
  /\ op = "assistAllies"
  /\ Len(world.allies) = 2
  /\ {p[1] : p \in QualifyingPairs} = {1, 2}
  /\ FirstQualifyingPair = <<1, 2>>
  /\ Len(designated) = 1
  /\ Len(SelectSeq(calls, LAMBDA c : c.kind = "updateRelation")) = 1

\* the first ally attacks somebody and is passed over; the second ally's target is taken
C13_WitnessSecondAlly ==
  /\ op = "assistAllies"
  /\ Len(world.allies) = 2
  /\ world.targets[world.allies[1]] # <<>>
  /\ QualifyingPairs # {}
  /\ FirstQualifyingPair[1] = 2
  /\ enemy = world.targets[world.allies[2]][FirstQualifyingPair[2]]

\* no pair qualified although the allies attack somebody
C13_WitnessNone ==
  /\ op = "assistAllies"
  /\ world.allies # <<>>
  /\ \A p \in Others : world.targets[p] # <<>>
  /\ QualifyingPairs = {}
  /\ calls = <<>>

----------------------------------------------------------------------------
(* SpecRetaliate: both selections in worlds without neighbors or           *)
(* relations, so that checkIncomingAttacks decides alone: at most one      *)
(* attack of 0 to MaxTroops troops from each player, in either order, and  *)
(* a clock that jumps.                                                     *)

\* incoming attacks in attacker order or reversed
AttackSeqsEitherOrder(troopCounts) ==
  UNION {{at, [i \in 1..Len(at) |-> at[Len(at) + 1 - i]]} : at \in AttackSeqs(troopCounts)}

WorldRetaliate(t, at) ==
  [W0 EXCEPT !.troops = t, !.maxTroops = MaxTroops, !.attacks = at]

InitRetaliate ==
  \E t \in {0, MaxTroops}, at \in AttackSeqsEitherOrder(0..MaxTroops) :
    InitWith(Cfg(2, 2, 1), WorldRetaliate(t, at))

NextRetaliate ==
  \/ SelectEnemy
  \/ \E r \in Draws(Len(world.neighbors), {FALSE}, {FALSE}) : SelectRandomEnemy(r)
  \/ Tick(StaleTicks + 1, MaxJumps * (StaleTicks + 1))

SpecRetaliate == InitRetaliate /\ [][NextRetaliate]_vars

\* a selection with no enemy set and sufficient troops: with no neighbor to
\* designate, it went on to checkIncomingAttacks
Retaliated ==
  /\ op \in Selections
  /\ pre.enemy = Null
  /\ world.troops * RatioDen >= cfg.triggerRatio * world.maxTroops

\* C14 as claimed: with at least one incoming attack, checkIncomingAttacks makes
\* the attacker of the largest troop count (first enumerated among ties) the enemy;
\* it leaves enemy and timestamp alone only when there is no incoming attack.
C14_AnyAttackSetsTheEnemy ==
  Retaliated =>
    IF world.attacks # <<>>
    THEN \E k \in 1..Len(world.attacks) :
           /\ FirstLargestAttack(k)
           /\ designated = <<world.attacks[k].attacker>>
           /\ enemy = world.attacks[k].attacker
           /\ enemyUpdated = ticks
    ELSE /\ designated = <<>>
         /\ enemy = pre.enemy
         /\ enemyUpdated = pre.enemyUpdated

\* C14 as amended: with at least one incoming attack of a positive troop count,
\* checkIncomingAttacks makes the attacker of the largest troop count (first
\* enumerated among ties) the enemy at the current tick; it leaves enemy and
\* timestamp alone when there is no incoming attack or every incoming attack
\* carries zero troops.
C14_PositiveAttackSetsTheEnemy ==
  Retaliated =>
    IF \E j \in 1..Len(world.attacks) : world.attacks[j].troops > 0
    THEN \E k \in 1..Len(world.attacks) :
           /\ FirstLargestAttack(k)
           /\ designated = <<world.attacks[k].attacker>>
           /\ enemy = world.attacks[k].attacker
           /\ enemyUpdated = ticks
    ELSE /\ designated = <<>>
         /\ enemy = pre.enemy
         /\ enemyUpdated = pre.enemyUpdated

\* of two attacks of the same positive troop count, the first enumerated, from the
\* player of the higher number, gave the enemy after the clock had moved
C14_Witness ==
  /\ Retaliated
  /\ Len(world.attacks) = 2
  /\ world.attacks[1].troops = world.attacks[2].troops
  /\ world.attacks[1].troops > 0
  /\ world.attacks[1].attacker > world.attacks[2].attacker
  /\ enemy = world.attacks[1].attacker
  /\ enemyUpdated = ticks
  /\ ticks > 0

\* attacks of zero troops only: nobody became the enemy
C14_WitnessZeroTroops ==
  /\ Retaliated
  /\ world.attacks # <<>>
  /\ \A j \in 1..Len(world.attacks) : world.attacks[j].troops = 0
  /\ enemy = Null

----------------------------------------------------------------------------
(* SpecFallback: selectEnemy in worlds drawn at the start where every step *)
(* may or may not find somebody: player 1 is a Bot with or without tiles,  *)
(* the others are FakeHuman; any of them are neighbors; at most one attack *)
(* of 0 or MaxTroops troops from each player; a relation list sorted by    *)
(* hostility with Hostile and Distrustful entries.  Nobody is friendly.    *)

\* allRelationsSorted(): entries of distinct players, the most hostile first
RelationSeqs ==
  UNION {{sq \in [1..Cardinality(A) -> [player : A, relation : {Hostile, Distrustful}]] :
            /\ \A i, j \in 1..Cardinality(A) : i < j =>
                  /\ sq[i].player # sq[j].player
                  /\ sq[i].relation <= sq[j].relation}
           : A \in SUBSET Others}

WorldFallback(t, nb, tl, at, rs) ==
  [W0 EXCEPT !.troops = t, !.maxTroops = MaxTroops,
             !.neighbors = <<TerraNullius>> \o SetToSeq(nb),
             !.ptype = [p \in Others |-> IF p = 1 THEN Bot ELSE FakeHuman],
             !.ptiles = [p \in Others |-> IF p = 1 THEN tl ELSE 1],
             !.attacks = at, !.relationsSorted = rs]

InitFallback ==
  \E t \in {0, MaxTroops}, nb \in SUBSET Others, tl \in {0, MaxTiles},
     at \in AttackSeqs({0, MaxTroops}), rs \in RelationSeqs :
    InitWith(Cfg(2, 2, 1), WorldFallback(t, nb, tl, at, rs))

NextFallback == SelectEnemy

SpecFallback == InitFallback /\ [][NextFallback]_vars

\* the density step finds a Bot neighbor that owns a tile
DensityStepFinds ==
  \E i \in 1..Len(world.neighbors) :
    /\ isPlayer(world.neighbors[i])
    /\ type(world, world.neighbors[i]) = Bot
    /\ world.ptiles[world.neighbors[i]] > 0

\* retaliation finds an attack of a positive troop count
RetaliationFinds == \E j \in 1..Len(world.attacks) : world.attacks[j].troops > 0

\* C15: in selectEnemy with no enemy set and sufficient troops, a Bot neighbor
\* chosen by the density step is the only player designated, whatever the attacks
\* and relations; retaliation designates only when the density step chose nobody;
\* the most-hated step designates only when retaliation chose nobody either, and
\* then only the first entry of the sorted relation list and only if it is Hostile.
C15_FallbacksInStrictOrder ==
  SelectedAfresh =>
    /\ Len(designated) <= 1
    /\ enemy = (IF designated = <<>> THEN Null ELSE designated[1])
    /\ IF DensityStepFinds
       THEN /\ designated # <<>>
            /\ designated[1] \in Range(world.neighbors)
            /\ type(world, designated[1]) = Bot
       ELSE IF RetaliationFinds
       THEN \E k \in 1..Len(world.attacks) :
              FirstLargestAttack(k) /\ designated = <<world.attacks[k].attacker>>
       ELSE IF world.relationsSorted # <<>> /\ world.relationsSorted[1].relation = Hostile
       THEN designated = <<world.relationsSorted[1].player>>
       ELSE designated = <<>>

\* the Bot neighbor became the enemy although another player attacks with troops
\* and a third relation is Hostile
C15_Witness ==
  /\ SelectedAfresh
  /\ DensityStepFinds
  /\ RetaliationFinds
  /\ world.relationsSorted # <<>>
  /\ world.relationsSorted[1].relation = Hostile
  /\ world.relationsSorted[1].player # 1
  /\ \A j \in 1..Len(world.attacks) : world.attacks[j].attacker # 1
  /\ enemy = 1

\* the first of two Hostile entries became the enemy: the Bot neighbor owns no
\* tile and the attacks carry no troops
C15_WitnessMostHated ==
  /\ SelectedAfresh
  /\ 1 \in Range(world.neighbors)
  /\ world.attacks # <<>>
  /\ Len(world.relationsSorted) = 2
  /\ world.relationsSorted[2].relation = Hostile
  /\ enemy = world.relationsSorted[1].player

\* retaliation decided: the attacker became the enemy and not the Hostile player
C15_WitnessRetaliation ==
  /\ SelectedAfresh
  /\ ~DensityStepFinds
  /\ RetaliationFinds
  /\ world.relationsSorted # <<>>
  /\ world.relationsSorted[1].relation = Hostile
  /\ enemy # world.relationsSorted[1].player
  /\ enemy # Null

----------------------------------------------------------------------------
(* SpecFriendly: selectEnemy with enough troops in worlds drawn at the     *)
(* start where any of the players are friendly: each player is a Bot or a  *)
(* FakeHuman on one tile, a player of a higher number having fewer troops; *)
(* any of them are neighbors; any of them attack with MaxTroops troops; at *)
(* most one relation, a Hostile one, is listed.                            *)

WorldFriendly(nb, ty, fr, at, rs) ==
  [W0 EXCEPT !.troops = MaxTroops, !.maxTroops = MaxTroops,
             !.neighbors = <<TerraNullius>> \o SetToSeq(nb),
             !.ptype = ty,
             !.ptroops = [p \in Others |-> NumOthers + 1 - p],
             !.friendly = fr, !.attacks = at, !.relationsSorted = rs]

InitFriendly ==
  \E nb \in SUBSET Others, ty \in [Others -> {Bot, FakeHuman}],
     fr \in SUBSET Others, at \in AttackSeqs({MaxTroops}),
     rs \in {<<>>} \cup {<<[player |-> p, relation |-> Hostile]>> : p \in Others} :
    InitWith(Cfg(2, 2, 1), WorldFriendly(nb, ty, fr, at, rs))

NextFriendly == SelectEnemy

SpecFriendly == InitFriendly /\ [][NextFriendly]_vars

\* the player the first step that finds somebody comes up with: the Bot neighbor
\* of the lowest density, else the largest attacker, else the Hostile first
\* entry of the relation list, else nobody
FirstChoice ==
  IF BotPositions(world) # {}
  THEN world.neighbors[CHOOSE i \in BotPositions(world) :
                         EarliestLowest(world, BotPositions(world), i)]
  ELSE IF world.attacks # <<>>
  THEN world.attacks[CHOOSE k \in 1..Len(world.attacks) : FirstLargestAttack(k)].attacker
  ELSE IF world.relationsSorted # <<>> /\ world.relationsSorted[1].relation = Hostile
  THEN world.relationsSorted[1].player
  ELSE Null

\* C19: selectEnemy chooses without looking at friendliness: when the player the
\* first finding step comes up with (lowest-density Bot neighbor, else largest
\* attacker, else most-hated Hostile player) is friendly, it is the one player
\* designated, the sanity check clears it, and the call returns null with no
\* enemy stored; no other neighbor and no later fallback is tried.
C19_FriendlyChoiceEndsInNull ==
  (SelectedAfresh /\ FirstChoice # Null /\ isFriendly(world, FirstChoice)) =>
    /\ designated = <<FirstChoice>>
    /\ enemy = Null
    /\ ret = Null

\* the lowest-density Bot neighbor is friendly; another Bot neighbor, an attacker
\* and a Hostile player are not, and still the call returned null
C19_Witness ==
  /\ SelectedAfresh
  /\ BotPositions(world) # {}
  /\ isFriendly(world, FirstChoice)
  /\ \E i \in BotPositions(world) : ~isFriendly(world, world.neighbors[i])
  /\ \E k \in 1..Len(world.attacks) : ~isFriendly(world, world.attacks[k].attacker)
  /\ world.relationsSorted # <<>>
  /\ ~isFriendly(world, world.relationsSorted[1].player)
  /\ designated = <<FirstChoice>>
  /\ ret = Null

\* the largest attacker is friendly, the Hostile player is not: null
C19_WitnessAttacker ==
  /\ SelectedAfresh
  /\ BotPositions(world) = {}
  /\ world.attacks # <<>>
  /\ isFriendly(world, FirstChoice)
  /\ world.relationsSorted # <<>>
  /\ ~isFriendly(world, world.relationsSorted[1].player)
  /\ ret = Null

\* the most-hated player is friendly: null
C19_WitnessMostHated ==
  /\ SelectedAfresh
  /\ BotPositions(world) = {}
  /\ world.attacks = <<>>
  /\ FirstChoice # Null
  /\ isFriendly(world, FirstChoice)
  /\ designated = <<FirstChoice>>
  /\ ret = Null

----------------------------------------------------------------------------
(* SpecTraitor: selectRandomEnemy with enough troops in worlds drawn at    *)
(* the start: each player is a FakeHuman or a Human, a traitor or not,     *)
(* friendly or not, a neighbor or not; player 1 attacks with MaxTroops     *)
(* troops or nobody attacks.  Every random answer is drawn.                *)

WorldTraitor(nb, ty, tr, fr, at) ==
  [W0 EXCEPT !.troops = MaxTroops, !.maxTroops = MaxTroops,
             !.neighbors = <<TerraNullius>> \o SetToSeq(nb),
             !.ptype = ty, !.traitor = tr, !.friendly = fr, !.attacks = at]

InitTraitor ==
  \E nb \in SUBSET Others, ty \in [Others -> {FakeHuman, Human}],
     tr \in [Others -> BOOLEAN], fr \in SUBSET Others,
     at \in {<<>>, <<[attacker |-> 1, troops |-> MaxTroops]>>} :
    InitWith(Cfg(2, 2, 1), WorldTraitor(nb, ty, tr, fr, at))

\* the random answers with every index randElement may draw; the index makes no
\* difference when chance(3) answers no
DrawsTraitor(n) ==
  Draws(n, BOOLEAN, {FALSE})
    \cup {[r EXCEPT !.randIdx = k] : r \in Draws(n, BOOLEAN, {TRUE}), k \in 1..NumOthers}

NextTraitor == \E r \in DrawsTraitor(Len(world.neighbors)) : SelectRandomEnemy(r)

SpecTraitor == InitTraitor /\ [][NextTraitor]_vars

\* the neighbors that are players, not friendly and not of type FakeHuman
OpenNeighborsOfAnotherType ==
  {n \in Range(world.neighbors) :
     isPlayer(n) /\ ~isFriendly(world, n) /\ type(world, n) # FakeHuman}

\* the walk designated nobody, retaliation found no attack with troops, and yet
\* somebody was designated: by the traitor step
TraitorStepDesignated ==
  /\ SelectedRandomAfresh
  /\ QualifyingPositions = <<>>
  /\ ~RetaliationFinds
  /\ designated # <<>>

\* C20: in selectRandomEnemy called with no enemy set and sufficient troops, the
\* traitor step designates only after the walk and retaliation both left the
\* enemy unset, so every non-friendly player neighbor
\* is then a FakeHuman and the enemy it designates is a non-friendly neighboring
\* traitor of type FakeHuman; and when some non-friendly player neighbor is of
\* another type, the call ends with an enemy chosen by the walk.
C20_TraitorOnlyAmongSkippedFakeHumans ==
  SelectedRandomAfresh =>
    /\ QualifyingPositions # <<>> =>
         designated = [k \in 1..Len(QualifyingPositions) |->
                         world.neighbors[rnd.shuffle[QualifyingPositions[k]]]]
    /\ (QualifyingPositions = <<>> /\ RetaliationFinds) =>
         \E k \in 1..Len(world.attacks) :
           FirstLargestAttack(k) /\ designated = <<world.attacks[k].attacker>>
    /\ TraitorStepDesignated =>
         /\ OpenNeighborsOfAnotherType = {}
         /\ rnd.chance3
         /\ Len(designated) = 1
         /\ designated[1] \in Range(world.neighbors)
         /\ isPlayer(designated[1])
         /\ isTraitor(world, designated[1])
         /\ ~isFriendly(world, designated[1])
         /\ type(world, designated[1]) = FakeHuman
         /\ enemy = designated[1]
    /\ OpenNeighborsOfAnotherType # {} =>
         /\ QualifyingPositions # <<>>
         /\ enemy = world.neighbors[rnd.shuffle[QualifyingPositions[Len(QualifyingPositions)]]]
         /\ ret = enemy

\* the walk skipped two FakeHuman neighbors, both traitors, and the traitor step
\* made the second of them the enemy
C20_Witness ==
  /\ TraitorStepDesignated
  /\ Len(SelectSeq(world.neighbors, LAMBDA n : isPlayer(n) /\ isTraitor(world, n))) = 2
  /\ \A n \in Range(world.neighbors) : isPlayer(n) => ~isFriendly(world, n)
  /\ enemy = world.neighbors[3]
  /\ ret = enemy

\* a Human neighbor that is not friendly: the walk chose the enemy although a
\* traitor is a neighbor and chance(3) would have answered yes
C20_WitnessWalk ==
  /\ SelectedRandomAfresh
  /\ OpenNeighborsOfAnotherType # {}
  /\ rnd.chance3
  /\ \E n \in Range(world.neighbors) :
       isPlayer(n) /\ isTraitor(world, n) /\ ~isFriendly(world, n) /\ n # enemy
  /\ enemy \in OpenNeighborsOfAnotherType
====
